---- MODULE Spec2Model ----
(***************************************************************************)
(* WordLlamaInference (src/wordllama/inference.py): the batched embedder,  *)
(* the dense (cosine) and binary (Hamming) similarity engines and the      *)
(* ranking / filtering / top-k layer built on them.                        *)
(*                                                                         *)
(* Number model.  A float32 is a record [n, d2] standing for n / sqrt(d2); *)
(* d2 = 0 is NaN (the only non-finite value the code can produce: 0/0).    *)
(* A uint64 is the set of its one-bit positions (a subset of 0..63).       *)
(* A similarity score is an exact fraction [num, den] in lowest terms,     *)
(* den = 0 being NaN; in dense mode the fraction is sign(c) * c^2 for the  *)
(* cosine c, a strictly increasing image of c.  Arithmetic is exact:       *)
(* float32 rounding is not modelled.                                       *)
(***************************************************************************)
EXTENDS Integers, Sequences, FiniteSets

\* Bounds of the model.
MaxDocs == 3
MaxTexts == 3
MaxBatch == 2
MaxWords == 2
MaxK == 3
VocabSize == 3
DenseDim == 2

\* Bits per packed word (np.uint64).
WordBits == 64

VARIABLES
  binary,           \* self.binary
  embedding,        \* self.embedding: VocabSize rows of dim floats
  constructed,      \* the flag and the table as __init__ set them
  pc,               \* position inside the running call ("idle" between calls)
  op,               \* the public operation being called
  args,             \* its arguments
  result,           \* its outcome: [status, value]
  embedCalls,       \* calls of embed the operation has made so far
  query_embedding,  \* the first embedding of rank, filter, topk, similarity
  operands,         \* the arrays a and b given to vector_similarity
  scores,           \* what vector_similarity returned: [status, value]
  ranked_docs,      \* topk: what rank returned
  texts, norm, pool_embeddings, batch_size,     \* embed's parameters
  i,                \* embed's loop variable
  pooled_embeddings,\* embed's preallocated output: shape and rows
  writes,           \* how many times each output row has been assigned
  input_ids, attention_mask, batch_embeddings,  \* the current batch
  steps,            \* the pipeline steps the current batch has run
  slices,           \* the row sets the batches of this call have written
  normOnUnpooled    \* normalisation was applied to per-token vectors

vars == <<binary, embedding, constructed, pc, op, args, result, embedCalls,
          query_embedding, operands, scores, ranked_docs, texts, norm,
          pool_embeddings, batch_size, i, pooled_embeddings, writes,
          input_ids, attention_mask, batch_embeddings, steps, slices,
          normOnUnpooled>>

engineVars == <<binary, embedding, constructed>>
callVars == <<op, args, result, embedCalls, query_embedding, operands, scores,
              ranked_docs>>
embedVars == <<texts, norm, pool_embeddings, batch_size, i, pooled_embeddings,
               writes, input_ids, attention_mask, batch_embeddings, steps,
               slices, normOnUnpooled>>

----------------------------------------------------------------------------
\* Numbers

Abs(x) == IF x < 0 THEN -x ELSE x
Min(x, y) == IF x < y THEN x ELSE y
Max(x, y) == IF x < y THEN y ELSE x

RECURSIVE GCD(_, _)
GCD(x, y) == IF y = 0 THEN x ELSE GCD(y, x % y)

\* the sequence <<f(1), ..., f(n)>>
Tabulate(n, f(_)) == SubSeq([k \in 1..n |-> f(k)], 1, n)

RECURSIVE SumSeq(_)
SumSeq(s) == IF s = <<>> THEN 0 ELSE Head(s) + SumSeq(Tail(s))

\* float32 values
F(x) == [n |-> x, d2 |-> 1]
NaN == [n |-> 0, d2 |-> 0]
IsNaN(x) == x.d2 = 0
IsZero(x) == x.d2 > 0 /\ x.n = 0
\* x / sqrt(s) for a raw x (d2 = 1); 0/0 is NaN
DivSqrt(x, s) == IF s = 0 THEN NaN ELSE [n |-> x.n, d2 |-> x.d2 * s]
\* elementwise ==
FEq(x, y) ==
  /\ ~IsNaN(x) /\ ~IsNaN(y)
  /\ (x.n > 0) = (y.n > 0) /\ (x.n < 0) = (y.n < 0)
  /\ x.n * x.n * y.d2 = y.n * y.n * x.d2

\* exact fractions (scores, thresholds)
Frac(p, q) ==
  IF q = 0 THEN [num |-> 0, den |-> 0]
  ELSE LET g == GCD(Abs(p), Abs(q))
           s == IF q < 0 THEN -1 ELSE 1
       IN  [num |-> s * (p \div g), den |-> s * (q \div g)]
ScoreNaN == [num |-> 0, den |-> 0]
ScoreGt(x, y) == x.den > 0 /\ y.den > 0 /\ x.num * y.den > y.num * x.den
\* the image of a threshold t under c |-> sign(c) * c^2
SquareKey(t) == Frac(t.num * Abs(t.num), t.den * t.den)

----------------------------------------------------------------------------
\* Construction (__init__): the table and the mode flag

Dims == {DenseDim} \cup {WordBits * w : w \in 1..MaxWords}

\* The weights supplied at construction: row r, column j (1-based).  Only the
\* first two columns of every 64-column group are non-zero; all entries are
\* even, so that pooling a text of one or two tokens divides exactly.
Weight(r, j) ==
  LET k == (j - 1) % WordBits
      w == (j - 1) \div WordBits
      q == (r + w) % 3
  IN  IF k >= 2 THEN 0
      ELSE IF q = 0 THEN (IF k = 0 THEN -2 ELSE 2)
      ELSE IF q = 1 THEN (IF k = 0 THEN 2 ELSE 0)
      ELSE (IF k = 0 THEN 0 ELSE 2)

Table(dim) ==
  LET row(r) == LET cell(j) == F(Weight(r - 1, j)) IN Tabulate(dim, cell)
  IN  Tabulate(VocabSize, row)

vocab_size == Len(embedding)
embedding_dim == Len(embedding[1])

----------------------------------------------------------------------------
\* The tokenizer collaborator.  A text is identified with the token ids the
\* tokenizer yields for it; ids at or above vocab_size are possible when the
\* table has fewer rows than the tokenizer's vocabulary.

PadId == 0
OutOfRangeId == VocabSize + 100
Corpus == { <<>>, <<1>>, <<1, VocabSize - 1>>, <<OutOfRangeId>> }
\* the texts given to embed when it is followed step by step: an empty one,
\* one of two tokens (the others of its batch are padded) and one of a single
\* out-of-range id
EmbedCorpus == { <<>>, <<1, VocabSize - 1>>, <<OutOfRangeId>> }

RECURSIVE SeqsUpTo(_, _)
SeqsUpTo(S, k) ==
  IF k = 0 THEN {<<>>}
  ELSE LET shorter == SeqsUpTo(S, k - 1)
       IN  shorter \cup {Append(l, x) : l \in {m \in shorter : Len(m) = k - 1}, x \in S}

DocLists == SeqsUpTo(Corpus, MaxDocs)
TextLists == SeqsUpTo(EmbedCorpus, MaxTexts)

RECURSIVE MaxLenOf(_)
MaxLenOf(chunk) ==
  IF chunk = <<>> THEN 0 ELSE Max(Len(Head(chunk)), MaxLenOf(Tail(chunk)))

\* tokenizer.encode_batch with padding enabled and truncation disabled: every
\* encoding of the batch is padded to the longest one.
tokenize(chunk) ==
  LET L == MaxLenOf(chunk)
      ids(t) == LET id(s) == IF s <= Len(chunk[t]) THEN chunk[t][s] ELSE PadId
                IN  Tabulate(L, id)
      mask(t) == LET bit(s) == IF s <= Len(chunk[t]) THEN 1 ELSE 0
                 IN  Tabulate(L, bit)
  IN  [ids |-> Tabulate(Len(chunk), ids), mask |-> Tabulate(Len(chunk), mask),
       seq_len |-> L]

----------------------------------------------------------------------------
\* The steps of one batch of embed

\* A faulty clamp: the upper limit is vocab_size, one past the last row.
ClipIdsOnePast(ids, vsize) ==
  LET row(t) == LET id(s) == Min(Max(ids[t][s], 0), vsize)
                IN  Tabulate(Len(ids[t]), id)
  IN  Tabulate(Len(ids), row)

\* np.clip(input_ids, 0, vocab_size - 1, out=input_ids)
ClipIds(ids, vsize) ==
  LET row(t) == LET id(s) == Min(Max(ids[t][s], 0), vsize - 1)
                IN  Tabulate(Len(ids[t]), id)
  IN  Tabulate(Len(ids), row)

\* self.embedding[input_ids]: indexing with an integer array copies the rows,
\* so the result owns its data (base "own") and does not alias the table.
GatherBaseView == "table"    \* a faulty gather: basic slicing, a view of the table
GatherBase == "own"

Gather(table, ids, seq_len) ==
  LET row(t) == LET tok(s) == table[ids[t][s] + 1] IN Tabulate(seq_len, tok)
  IN  [shape |-> <<Len(ids), seq_len, Len(table[1])>>,
       base  |-> GatherBase,
       data  |-> Tabulate(Len(ids), row)]

\* avg_pool: sum(x * mask, axis=1) / maximum(mask.sum(axis=1), 1.0).  The
\* weights are even and a text has at most two tokens, so \div is exact.
avg_pool(x, mask) ==
  LET n == x.shape[1]
      dim == x.shape[3]
      row(t) ==
        LET mask_sum == Max(SumSeq(mask[t]), 1)
            cell(j) == LET term(s) == x.data[t][s][j].n * mask[t][s]
                       IN  F(SumSeq(Tabulate(Len(mask[t]), term)) \div mask_sum)
        IN  Tabulate(dim, cell)
  IN  [shape |-> <<n, dim>>, base |-> "own", data |-> Tabulate(n, row)]

\* batch_embeddings /= np.linalg.norm(batch_embeddings, axis=1, keepdims=True):
\* axis 1 is the feature axis of a pooled [n, dim] batch and the sequence axis
\* of an unpooled [n, seq_len, dim] batch.
RECURSIVE SumSquaresIn(_, _, _)
SumSquaresIn(v, lo, hi) ==
  IF lo > hi THEN 0
  ELSE IF lo = hi THEN v[lo].n * v[lo].n
  ELSE LET mid == (lo + hi) \div 2
       IN  SumSquaresIn(v, lo, mid) + SumSquaresIn(v, mid + 1, hi)

SumSquares(v) == SumSquaresIn(v, 1, Len(v))

NormalizeAxis1(x) ==
  IF Len(x.shape) = 2
  THEN LET row(t) == LET sq == SumSquares(x.data[t])
                         cell(j) == DivSqrt(x.data[t][j], sq)
                     IN  Tabulate(x.shape[2], cell)
       IN  [x EXCEPT !.data = Tabulate(x.shape[1], row)]
  ELSE LET sqs(t) == LET sq(j) == LET term(s) == x.data[t][s][j] IN
                                  SumSquares(Tabulate(x.shape[2], term))
                     IN  Tabulate(x.shape[3], sq)
           row(t) == LET norms == sqs(t)
                         tok(s) == LET cell(j) == DivSqrt(x.data[t][s][j], norms[j])
                                   IN  Tabulate(x.shape[3], cell)
                     IN  Tabulate(x.shape[2], tok)
       IN  [x EXCEPT !.data = Tabulate(x.shape[1], row)]

\* The in-place division writes through to the table only if the batch is a
\* view of it; rows are written in batch order.
RECURSIVE WriteRows(_, _, _)
WriteRows(table, idx, rows) ==
  IF idx = <<>> THEN table
  ELSE WriteRows([table EXCEPT ![Head(idx) + 1] = Head(rows)], Tail(idx), Tail(rows))

RECURSIVE Flatten(_)
Flatten(ss) == IF ss = <<>> THEN <<>> ELSE Head(ss) \o Flatten(Tail(ss))

TableAfterNormalize(table, ids, before, after) ==
  IF before.base = "table" /\ Len(before.shape) = 3
  THEN WriteRows(table, Flatten(ids), Flatten(after.data))
  ELSE table

\* binarize_and_packbits: sign bit of every component, 64 consecutive bits
\* packed into one unsigned word, along the last axis.
PackRow(v) ==
  LET word(w) == {k \in 0..(WordBits - 1) : ~IsNaN(v[(w - 1) * WordBits + k + 1])
                                            /\ v[(w - 1) * WordBits + k + 1].n > 0}
  IN  Tabulate(Len(v) \div WordBits, word)

binarize_and_packbits(x) ==
  LET words == x.shape[Len(x.shape)] \div WordBits
      row(t) == PackRow(x.data[t])
      rows(t) == LET tok(s) == PackRow(x.data[t][s]) IN Tabulate(x.shape[2], tok)
  IN  IF Len(x.shape) = 2
      THEN [shape |-> <<x.shape[1], words>>, base |-> "own",
            data |-> Tabulate(x.shape[1], row)]
      ELSE [shape |-> <<x.shape[1], x.shape[2], words>>, base |-> "own",
            data |-> Tabulate(x.shape[1], rows)]

\* pooled_embeddings[i : i + batch.shape[0]] = batch.  numpy broadcasts the
\* value to the slice's shape [m, dim]: leading axes of length one are dropped
\* from a value of higher rank, then every axis must match or have length one.
RECURSIVE StripOnes(_, _)
StripOnes(shape, rank) ==
  IF Len(shape) > rank /\ Head(shape) = 1 THEN StripOnes(Tail(shape), rank) ELSE shape

CanAssign(vshape, m, dim) ==
  LET sh == StripOnes(vshape, 2)
  IN  /\ Len(sh) = 2
      /\ sh[1] \in {1, m}
      /\ sh[2] \in {1, dim}

\* The rows the assignment stores (defined when CanAssign holds).
AssignedRows(x, m, dim) ==
  LET sh == StripOnes(x.shape, 2)
      rows == IF Len(x.shape) = 2 THEN x.data ELSE x.data[1]
      row(t) == LET src == rows[IF sh[1] = 1 THEN 1 ELSE t]
                    cell(j) == src[IF sh[2] = 1 THEN 1 ELSE j]
                IN  Tabulate(dim, cell)
  IN  Tabulate(m, row)


\* The first row a batch starting at offset k writes, and the next offset of
\* range(0, num_texts, batch_size).
SliceStartShifted(k) == k + 2    \* a faulty slice: it starts one row late
SliceStart(k) == k + 1
NextOffset(k, bs) == k + bs

DefaultBatchSize == 32
Uninit == <<>>      \* a row of np.empty that has not been assigned

\* One batch run through lines 95-120 at once: the value it would store.
BatchCompute(table, bin, chunk, nrm, pool) ==
  LET tok == tokenize(chunk)
      ids == ClipIds(tok.ids, Len(table))
      g == Gather(table, ids, tok.seq_len)
      p == IF pool THEN avg_pool(g, tok.mask) ELSE g
      q == IF nrm THEN NormalizeAxis1(p) ELSE p
  IN  IF bin THEN binarize_and_packbits(q) ELSE q

----------------------------------------------------------------------------
\* The similarity engines

Row1D(array, t) == [shape |-> <<array.shape[2]>>, data |-> array.data[t]]

\* np.expand_dims(a, axis=0) when a.ndim == 1
Promote(a) ==
  IF Len(a.shape) = 1 THEN [shape |-> <<1, a.shape[1]>>, data |-> <<a.data>>] ELSE a

SqNorm(u) == SumSquares(u)

RECURSIVE DotIn(_, _, _, _)
DotIn(u, v, lo, hi) ==
  IF lo > hi THEN 0
  ELSE IF lo = hi THEN u[lo].n * v[lo].n
  ELSE LET mid == (lo + hi) \div 2
       IN  DotIn(u, v, lo, mid) + DotIn(u, v, mid + 1, hi)

Dot(u, v) == DotIn(u, v, 1, Len(u))

\* (u / |u|) . (v / |v|) as sign(c) * c^2; a zero or NaN row normalises to NaN
CosineScore(u, v) ==
  LET d == Dot(u, v)
      nu == SqNorm(u)
      nv == SqNorm(v)
  IN  IF \/ \E j \in DOMAIN u : IsNaN(u[j])
         \/ \E j \in DOMAIN v : IsNaN(v[j])
         \/ nu = 0 \/ nv = 0
      THEN ScoreNaN
      ELSE Frac(d * Abs(d), nu * nv)

\* (a == b).all(): the comparison broadcasts a row count of one against the
\* other operand's rows and is vacuously true of an empty result.
Broadcastable(ra, rb) == ra = rb \/ ra = 1 \/ rb = 1
AllEqual(a, b) ==
  LET ra == a.shape[1]
      rb == b.shape[1]
      rows == IF ra = 1 THEN rb ELSE ra
  IN  \A t \in 1..rows : \A j \in 1..a.shape[2] :
        FEq(a.data[IF ra = 1 THEN 1 ELSE t][j], b.data[IF rb = 1 THEN 1 ELSE t][j])

\* a @ b.T on the normalised operands: one score per pair of rows
CosineMatrix(a, b) ==
  LET row(s) == LET cell(t) == CosineScore(a.data[s], b.data[t])
                IN  Tabulate(b.shape[1], cell)
  IN  [status |-> "ok",
       value |-> [shape |-> <<a.shape[1], b.shape[1]>>,
                  data |-> Tabulate(a.shape[1], row)]]

\* Operands whose row counts do not broadcast make a == b fail (numpy >= 1.25
\* raises ValueError; older releases return the bool False, which has no
\* .all()): an error either way.
cosine_similarity(a, b) ==
  IF ~Broadcastable(a.shape[1], b.shape[1]) \/ a.shape[2] # b.shape[2]
  THEN [status |-> "ValueError", value |-> <<>>]
  ELSE IF AllEqual(a, b)
       THEN CosineMatrix(a, a)
       ELSE CosineMatrix(a, b)

\* hamming_distance: differing bits of two packed codes, summed over the words
HammingDistance(u, v) ==
  LET differing(w) == Cardinality((u[w] \ v[w]) \cup (v[w] \ u[w]))
  IN  SumSeq(Tabulate(Len(u), differing))

HammingScore(max_dist, u, v) == Frac(max_dist - 2 * HammingDistance(u, v), max_dist)

\* 1.0 - 2.0 * (dist / max_dist), one score per pair of rows
HammingMatrix(a, b, max_dist) ==
  LET row(s) == LET cell(t) == HammingScore(max_dist, a.data[s], b.data[t])
                IN  Tabulate(b.shape[1], cell)
  IN  [status |-> "ok",
       value |-> [shape |-> <<a.shape[1], b.shape[1]>>,
                  data |-> Tabulate(a.shape[1], row)]]

hamming_similarity(a, b) ==
  LET max_dist == a.shape[2] * WordBits
  IN  IF a.shape[2] # b.shape[2]
      THEN [status |-> "ValueError", value |-> <<>>]
      ELSE HammingMatrix(a, b, max_dist)

vector_similarity(bin, a, b) ==
  IF bin THEN hamming_similarity(Promote(a), Promote(b))
  ELSE cosine_similarity(Promote(a), Promote(b))

\* ndarray.squeeze(): every axis of length one is removed.  A [1, 1] matrix
\* becomes a 0-d array, a [1, N] or [N, 1] matrix a vector of N.
squeeze(m) ==
  LET r == m.shape[1]
      c == m.shape[2]
  IN  IF r = 1 /\ c = 1 THEN [shape |-> <<>>, data |-> m.data[1][1]]
      ELSE IF r = 1 THEN [shape |-> <<c>>, data |-> m.data[1]]
      ELSE IF c = 1 THEN LET cell(t) == m.data[t][1]
                         IN  [shape |-> <<r>>, data |-> Tabulate(r, cell)]
      ELSE m

----------------------------------------------------------------------------
\* Ranking, filtering, top-k: what follows the call of vector_similarity

Permutations(n) == {p \in [1..n -> 1..n] : \A x, y \in 1..n : p[x] = p[y] => x = y}

\* list.sort(key=score, reverse=True): stable, descending.  An element is
\* placed before the first one it beats, after every one it ties with.
RECURSIVE InsertDesc(_, _)
InsertDesc(sorted, x) ==
  IF sorted = <<>> THEN <<x>>
  ELSE IF ScoreGt(x.score, Head(sorted).score) THEN <<x>> \o sorted
  ELSE <<Head(sorted)>> \o InsertDesc(Tail(sorted), x)

RECURSIVE SortDesc(_)
SortDesc(pairs) ==
  IF pairs = <<>> THEN <<>>
  ELSE InsertDesc(SortDesc(SubSeq(pairs, 1, Len(pairs) - 1)), pairs[Len(pairs)])

\* The orders the sort can leave the pairs in.  NaN compares false with
\* everything, so no order of a list holding one is consistent with <; the
\* sort then leaves some permutation, which one being unspecified.
SortOutcomes(pairs) ==
  IF \E t \in DOMAIN pairs : pairs[t].score.den = 0
  THEN {[k \in 1..Len(pairs) |-> pairs[p[k]]] : p \in Permutations(Len(pairs))}
  ELSE {SortDesc(pairs)}

\* list(zip(docs, scores.tolist())): tolist() of a 0-d array is a bare float,
\* and iterating a 0-d array fails as well; zip raises TypeError on either.
Zip(docs, sq) ==
  IF Len(sq.shape) = 0 THEN [status |-> "TypeError", value |-> <<>>]
  ELSE LET pair(t) == [doc |-> docs[t], score |-> sq.data[t]]
       IN  [status |-> "ok", value |-> Tabulate(Min(Len(docs), sq.shape[1]), pair)]

\* score > threshold; dense scores are kept as sign(c) * c^2
AboveThreshold(bin, score, threshold) ==
  ScoreGt(score, IF bin THEN threshold ELSE SquareKey(threshold))

RECURSIVE KeepAbove(_, _, _)
KeepAbove(bin, pairs, threshold) ==
  IF pairs = <<>> THEN <<>>
  ELSE (IF AboveThreshold(bin, Head(pairs).score, threshold)
        THEN <<Head(pairs).doc>> ELSE <<>>)
       \o KeepAbove(bin, Tail(pairs), threshold)

\* assert len(candidates) > k
TopkPrecondition(n, k) == n > k

\* [doc for doc, score in ranked_docs[:k]]
FirstDocs(ranked, k) ==
  LET doc(t) == ranked[t].doc IN Tabulate(Min(k, Len(ranked)), doc)

----------------------------------------------------------------------------
\* Deduplication: process_batches_cy lives outside inference.py and is given
\* by its contract.  The indices marked duplicate are those of the documents
\* scoring above the threshold against an earlier surviving one.

RECURSIVE DuplicateIndices(_, _, _, _, _)
DuplicateIndices(bin, emb, threshold, t, dups) ==
  IF t > emb.shape[1] THEN dups
  ELSE LET one(k) == [shape |-> <<1, emb.shape[2]>>, data |-> <<emb.data[k]>>]
           hit == \E k \in 1..(t - 1) :
                    /\ k \notin dups
                    /\ LET sc == vector_similarity(bin, one(k), one(t))
                       IN  sc.status = "ok"
                           /\ AboveThreshold(bin, sc.value.data[1][1], threshold)
       IN  DuplicateIndices(bin, emb, threshold, t + 1, IF hit THEN dups \cup {t} ELSE dups)

\* [doc for idx, doc in enumerate(docs) if idx not in duplicate_indices]
RECURSIVE Without(_, _, _)
Without(docs, dups, t) ==
  IF t > Len(docs) THEN <<>>
  ELSE (IF t \in dups THEN <<>> ELSE <<docs[t]>>) \o Without(docs, dups, t + 1)

----------------------------------------------------------------------------
\* State machine: construction and the calls of the public operations

NoArray == [shape |-> <<>>, base |-> "own", data |-> <<>>]
NoResult == [status |-> "none", value |-> <<>>]
Thresholds == {Frac(0, 1), Frac(1, 1)}
Queries == {<<1>>, <<1, VocabSize - 1>>}

\* __init__: the mode flag and the table are set; nothing has been called.
Init ==
  /\ binary \in BOOLEAN
  /\ \E dim \in Dims :
       /\ binary <=> (dim % WordBits = 0)
       /\ embedding = Table(dim)
  /\ constructed = [binary |-> binary, embedding |-> embedding]
  /\ pc = "idle" /\ op = "none" /\ args = <<>> /\ result = NoResult /\ embedCalls = 0
  /\ query_embedding = NoArray /\ operands = <<>> /\ scores = NoResult
  /\ ranked_docs = <<>>
  /\ texts = <<>> /\ norm = FALSE /\ pool_embeddings = TRUE /\ batch_size = DefaultBatchSize
  /\ i = 0 /\ pooled_embeddings = NoArray /\ writes = <<>>
  /\ input_ids = <<>> /\ attention_mask = <<>> /\ batch_embeddings = NoArray
  /\ steps = <<>> /\ slices = <<>> /\ normOnUnpooled = FALSE

\* lines 78-90 of embed: the parameters are bound and the output array is
\* allocated, num_texts rows of embedding_dim entries, before the first batch
EmbedEnter(txts, nrm, pool, bs) ==
  /\ texts' = txts /\ norm' = nrm /\ pool_embeddings' = pool /\ batch_size' = bs
  /\ i' = 0
  /\ pooled_embeddings' = [shape |-> <<Len(txts), embedding_dim>>,
                           base  |-> "own",
                           data  |-> [t \in 1..Len(txts) |-> Uninit]]
  /\ writes' = [t \in 1..Len(txts) |-> 0]
  /\ input_ids' = <<>> /\ attention_mask' = <<>> /\ batch_embeddings' = NoArray
  /\ steps' = <<>> /\ slices' = <<>> /\ normOnUnpooled' = FALSE
  /\ pc' = "loop"

\* An operation is entered.
Enter(name, a) ==
  /\ op' = name /\ args' = a
  /\ UNCHANGED <<engineVars, query_embedding, operands, scores, ranked_docs>>

\* The operation ends: it returns a value or raises.
Leave(status, value) ==
  /\ result' = [status |-> status, value |-> value]
  /\ pc' = "done"

EmbedCall ==
  /\ pc = "idle"
  /\ \E txts \in TextLists, nrm \in BOOLEAN, pool \in BOOLEAN, bs \in 1..MaxBatch :
       /\ Enter("embed", <<>>)
       /\ embedCalls' = 1
       /\ UNCHANGED result
       /\ EmbedEnter(txts, nrm, pool, bs)

\* rank, line 253
RankCall ==
  /\ pc = "idle"
  /\ \E query \in Queries, docs \in DocLists :
       /\ Enter("rank", <<query, docs>>)
       /\ embedCalls' = 1
       /\ UNCHANGED result
       /\ EmbedEnter(<<query>>, FALSE, TRUE, DefaultBatchSize)

\* filter, line 321
FilterCall ==
  /\ pc = "idle"
  /\ \E query \in Queries, candidates \in DocLists, threshold \in Thresholds :
       /\ Enter("filter", <<query, candidates, threshold>>)
       /\ embedCalls' = 1
       /\ UNCHANGED result
       /\ EmbedEnter(<<query>>, FALSE, TRUE, DefaultBatchSize)

\* topk, lines 301-304: the assertion, then rank's first line
TopkCall ==
  /\ pc = "idle"
  /\ \E query \in Queries, candidates \in DocLists, k \in 0..MaxK :
       /\ Enter("topk", <<query, candidates, k>>)
       /\ IF TopkPrecondition(Len(candidates), k)
          THEN /\ embedCalls' = 1
               /\ EmbedEnter(<<query>>, FALSE, TRUE, DefaultBatchSize)
               /\ UNCHANGED result
          ELSE /\ embedCalls' = 0
               /\ Leave("AssertionError", <<>>)
               /\ UNCHANGED embedVars

\* similarity, line 237
SimilarityCall ==
  /\ pc = "idle"
  /\ \E text1 \in Corpus, text2 \in Corpus :
       /\ Enter("similarity", <<text1, text2>>)
       /\ embedCalls' = 1
       /\ UNCHANGED result
       /\ EmbedEnter(<<text1>>, FALSE, TRUE, DefaultBatchSize)

\* deduplicate, line 276
DeduplicateCall ==
  /\ pc = "idle"
  /\ \E docs \in DocLists, threshold \in Thresholds :
       /\ Enter("deduplicate", <<docs, threshold>>)
       /\ embedCalls' = 1
       /\ UNCHANGED result
       /\ EmbedEnter(docs, ~binary, TRUE, DefaultBatchSize)

\* cluster, lines 359-361
ClusterCall ==
  /\ pc = "idle"
  /\ \E docs \in DocLists, k \in 0..MaxK :
       /\ Enter("cluster", <<docs, k>>)
       /\ IF binary
          THEN /\ embedCalls' = 0
               /\ Leave("ValueError", <<>>)
               /\ UNCHANGED embedVars
          ELSE /\ embedCalls' = 1
               /\ EmbedEnter(docs, TRUE, TRUE, DefaultBatchSize)
               /\ UNCHANGED result

\* split, lines 401-406: SemanticSplitter.split has cut the text into lines
SplitCall ==
  /\ pc = "idle"
  /\ \E lines \in DocLists :
       /\ Enter("split", <<lines>>)
       /\ embedCalls' = 1
       /\ UNCHANGED result
       /\ EmbedEnter(lines, TRUE, TRUE, DefaultBatchSize)

\* The arrays vector_similarity is given directly: the pooled vectors of some
\* texts (their packed sign bits in binary mode), as a batch or as one vector.
VectorsOf(table, bin, txts) ==
  LET b == BatchCompute(table, bin, txts, FALSE, TRUE)
  IN  [shape |-> b.shape, data |-> b.data]

Operand(table, bin, txts, flat) ==
  IF flat THEN Row1D(VectorsOf(table, bin, txts), 1) ELSE VectorsOf(table, bin, txts)

\* args: the texts behind a and b, and whether a is passed as a 1D vector
VectorSimilarityCall ==
  /\ pc = "idle"
  /\ \E ta \in TextLists, tb \in TextLists, flat \in BOOLEAN :
       /\ Len(ta) \in 1..2 /\ Len(tb) >= 1
       /\ flat => Len(ta) = 1
       /\ op' = "vector_similarity" /\ args' = <<ta, tb, flat>>
       /\ operands' = <<Operand(embedding, binary, ta, flat),
                        Operand(embedding, binary, tb, FALSE)>>
       /\ embedCalls' = 0
       /\ pc' = "similarity"
       /\ UNCHANGED <<engineVars, result, query_embedding, scores, ranked_docs, embedVars>>

\* lines 213-224
VectorSimilarityReturn ==
  /\ pc = "similarity" /\ op = "vector_similarity"
  /\ LET sc == vector_similarity(binary, operands[1], operands[2])
     IN  /\ scores' = sc
         /\ Leave(sc.status, sc.value)
  /\ UNCHANGED <<engineVars, op, args, embedCalls, query_embedding, operands,
                 ranked_docs, embedVars>>

\* The caller takes the outcome; the engine is ready for the next call.
Consume ==
  /\ pc = "done"
  /\ pc' = "idle" /\ op' = "none" /\ args' = <<>> /\ result' = NoResult /\ embedCalls' = 0
  /\ query_embedding' = NoArray /\ operands' = <<>> /\ scores' = NoResult
  /\ ranked_docs' = <<>>
  /\ texts' = <<>> /\ norm' = FALSE /\ pool_embeddings' = TRUE
  /\ batch_size' = DefaultBatchSize /\ i' = 0 /\ pooled_embeddings' = NoArray
  /\ writes' = <<>> /\ input_ids' = <<>> /\ attention_mask' = <<>>
  /\ batch_embeddings' = NoArray /\ steps' = <<>> /\ slices' = <<>>
  /\ normOnUnpooled' = FALSE
  /\ UNCHANGED engineVars

----------------------------------------------------------------------------
\* embed, step by step

\* the step that follows gathering, pooling or normalising
StepAfter(stage) ==
  IF stage = "gather" /\ pool_embeddings THEN "pool"
  ELSE IF stage \in {"gather", "pool"} /\ norm THEN "normalize"
  ELSE IF binary THEN "binarize"
  ELSE "store"

\* line 93
Chunk == SubSeq(texts, i + 1, Min(i + batch_size, Len(texts)))

\* lines 92-100
Tokenize ==
  /\ pc = "loop" /\ i < Len(texts)
  /\ LET tok == tokenize(Chunk)
     IN  /\ input_ids' = tok.ids
         /\ attention_mask' = tok.mask
  /\ steps' = <<"tokenize">>
  /\ batch_embeddings' = NoArray
  /\ pc' = "clamp"
  /\ UNCHANGED <<engineVars, callVars, texts, norm, pool_embeddings, batch_size, i,
                 pooled_embeddings, writes, slices, normOnUnpooled>>

\* line 103
Clamp ==
  /\ pc = "clamp"
  /\ input_ids' = ClipIds(input_ids, vocab_size)
  /\ steps' = Append(steps, "clamp")
  /\ pc' = "gather"
  /\ UNCHANGED <<engineVars, callVars, texts, norm, pool_embeddings, batch_size, i,
                 pooled_embeddings, writes, attention_mask, batch_embeddings, slices,
                 normOnUnpooled>>

SeqLen == IF attention_mask = <<>> THEN 0 ELSE Len(attention_mask[1])

\* line 106
GatherRows ==
  /\ pc = "gather"
  /\ batch_embeddings' = Gather(embedding, input_ids, SeqLen)
  /\ steps' = Append(steps, "gather")
  /\ pc' = StepAfter("gather")
  /\ UNCHANGED <<engineVars, callVars, texts, norm, pool_embeddings, batch_size, i,
                 pooled_embeddings, writes, input_ids, attention_mask, slices,
                 normOnUnpooled>>

\* lines 109-110
Pool ==
  /\ pc = "pool"
  /\ batch_embeddings' = avg_pool(batch_embeddings, attention_mask)
  /\ steps' = Append(steps, "pool")
  /\ pc' = StepAfter("pool")
  /\ UNCHANGED <<engineVars, callVars, texts, norm, pool_embeddings, batch_size, i,
                 pooled_embeddings, writes, input_ids, attention_mask, slices,
                 normOnUnpooled>>

\* lines 113-116
Normalize ==
  /\ pc = "normalize"
  /\ batch_embeddings' = NormalizeAxis1(batch_embeddings)
  /\ embedding' = TableAfterNormalize(embedding, input_ids, batch_embeddings,
                                      NormalizeAxis1(batch_embeddings))
  /\ normOnUnpooled' = (normOnUnpooled \/ Len(batch_embeddings.shape) = 3)
  /\ steps' = Append(steps, "normalize")
  /\ pc' = StepAfter("normalize")
  /\ UNCHANGED <<binary, constructed, callVars, texts, norm, pool_embeddings,
                 batch_size, i, pooled_embeddings, writes, input_ids,
                 attention_mask, slices>>

\* lines 119-120
Binarize ==
  /\ pc = "binarize"
  /\ batch_embeddings' = binarize_and_packbits(batch_embeddings)
  /\ steps' = Append(steps, "binarize")
  /\ pc' = "store"
  /\ UNCHANGED <<engineVars, callVars, texts, norm, pool_embeddings, batch_size, i,
                 pooled_embeddings, writes, input_ids, attention_mask, slices,
                 normOnUnpooled>>

\* the rows of pooled_embeddings[i : i + batch_embeddings.shape[0]]
Slice == {t \in 1..Len(texts) :
            SliceStart(i) <= t /\ t < SliceStart(i) + batch_embeddings.shape[1]}

\* line 123, the assignment broadcasts
Store ==
  /\ pc = "store"
  /\ CanAssign(batch_embeddings.shape, Cardinality(Slice), pooled_embeddings.shape[2])
  /\ LET rows == AssignedRows(batch_embeddings, Cardinality(Slice),
                              pooled_embeddings.shape[2])
     IN  pooled_embeddings' =
           [pooled_embeddings EXCEPT !.data =
              [t \in 1..Len(texts) |->
                 IF t \in Slice THEN rows[t - SliceStart(i) + 1]
                 ELSE pooled_embeddings.data[t]]]
  /\ writes' = [t \in 1..Len(texts) |-> IF t \in Slice THEN writes[t] + 1 ELSE writes[t]]
  /\ slices' = Append(slices, Slice)
  /\ steps' = Append(steps, "store")
  /\ i' = NextOffset(i, batch_size)
  /\ pc' = "loop"
  /\ UNCHANGED <<engineVars, callVars, texts, norm, pool_embeddings, batch_size,
                 input_ids, attention_mask, batch_embeddings, normOnUnpooled>>

\* line 123, the assignment raises: the shapes do not broadcast.  The error
\* leaves embed and the operation that called it.
StoreFails ==
  /\ pc = "store"
  /\ ~CanAssign(batch_embeddings.shape, Cardinality(Slice), pooled_embeddings.shape[2])
  /\ Leave("ValueError", <<>>)
  /\ UNCHANGED <<engineVars, op, args, embedCalls, query_embedding, operands, scores,
                 ranked_docs, embedVars>>

\* the loop of line 92 is over
LoopDone == pc = "loop" /\ i >= Len(texts)

\* lines 126-127
Returned == [shape |-> pooled_embeddings.shape, data |-> pooled_embeddings.data]

EmbedReturn ==
  /\ LoopDone /\ op = "embed"
  /\ Leave("ok", Returned)
  /\ UNCHANGED <<engineVars, op, args, embedCalls, query_embedding, operands, scores,
                 ranked_docs, embedVars>>

----------------------------------------------------------------------------
\* The operations built on embed, from the return of their calls of embed on

TwoEmbeds == {"rank", "filter", "topk", "similarity"}

\* lines 253-254, 321-322, 237-238: the first embedding is kept and the
\* second call of embed is made
QueryEmbedded ==
  /\ LoopDone /\ op \in TwoEmbeds /\ embedCalls = 1
  /\ query_embedding' = Returned
  /\ embedCalls' = 2
  /\ EmbedEnter(IF op = "similarity" THEN <<args[2]>> ELSE args[2],
                FALSE, TRUE, DefaultBatchSize)
  /\ UNCHANGED <<engineVars, op, args, result, operands, scores, ranked_docs>>

\* lines 255, 323-325, 239: vector_similarity on the first row of the first
\* embedding and the second embedding (its first row in similarity)
DocsEmbedded ==
  /\ LoopDone /\ op \in TwoEmbeds /\ embedCalls = 2
  /\ operands' = <<Row1D(query_embedding, 1),
                   IF op = "similarity" THEN Row1D(Returned, 1) ELSE Returned>>
  /\ pc' = "similarity"
  /\ UNCHANGED <<engineVars, op, args, result, embedCalls, query_embedding, scores,
                 ranked_docs, embedVars>>

Scored ==
  /\ pc = "similarity" /\ op \in TwoEmbeds
  /\ scores' = vector_similarity(binary, operands[1], operands[2])
  /\ pc' = "scored"
  /\ UNCHANGED <<engineVars, op, args, result, embedCalls, query_embedding, operands,
                 ranked_docs, embedVars>>

\* rank, lines 257-259, given the documents and the score matrix
RankOutcomes(docs, sc) ==
  IF sc.status # "ok" THEN {[status |-> sc.status, value |-> <<>>]}
  ELSE LET z == Zip(docs, squeeze(sc.value))
       IN  IF z.status # "ok" THEN {z}
           ELSE {[status |-> "ok", value |-> s] : s \in SortOutcomes(z.value)}

\* lines 257-260
RankReturn ==
  /\ pc = "scored" /\ op = "rank"
  /\ \E r \in RankOutcomes(args[2], scores) : Leave(r.status, r.value)
  /\ UNCHANGED <<engineVars, op, args, embedCalls, query_embedding, operands, scores,
                 ranked_docs, embedVars>>

\* lines 325-332
FilterReturn ==
  /\ pc = "scored" /\ op = "filter"
  /\ IF scores.status # "ok" THEN Leave(scores.status, <<>>)
     ELSE LET z == Zip(args[2], squeeze(scores.value))
          IN  IF z.status # "ok" THEN Leave(z.status, <<>>)
              ELSE Leave("ok", KeepAbove(binary, z.value, args[3]))
  /\ UNCHANGED <<engineVars, op, args, embedCalls, query_embedding, operands, scores,
                 ranked_docs, embedVars>>

\* lines 304-305, rank's lines 257-260 included
TopkReturn ==
  /\ pc = "scored" /\ op = "topk"
  /\ \E r \in RankOutcomes(args[2], scores) :
       IF r.status # "ok"
       THEN Leave(r.status, <<>>) /\ UNCHANGED ranked_docs
       ELSE Leave("ok", FirstDocs(r.value, args[3])) /\ ranked_docs' = r.value
  /\ UNCHANGED <<engineVars, op, args, embedCalls, query_embedding, operands, scores,
                 embedVars>>

\* line 239: .item() of the 1 x 1 matrix
SimilarityReturn ==
  /\ pc = "scored" /\ op = "similarity"
  /\ IF scores.status # "ok" THEN Leave(scores.status, <<>>)
     ELSE Leave("ok", scores.value.data[1][1])
  /\ UNCHANGED <<engineVars, op, args, embedCalls, query_embedding, operands, scores,
                 ranked_docs, embedVars>>

\* lines 278-287
DeduplicateReturn ==
  /\ LoopDone /\ op = "deduplicate"
  /\ Leave("ok", Without(args[1], DuplicateIndices(binary, Returned, args[2], 1, {}), 1))
  /\ UNCHANGED <<engineVars, op, args, embedCalls, query_embedding, operands, scores,
                 ranked_docs, embedVars>>

\* lines 362-375: the assertions; the labels and the inertia are those of
\* kmeans_clustering, which lives outside inference.py
ClusterReturn ==
  /\ LoopDone /\ op = "cluster"
  /\ IF ~(Len(args[1]) >= args[2]) THEN Leave("AssertionError", <<>>)
     ELSE IF args[1] = <<>> THEN Leave("IndexError", <<>>)
     ELSE Leave("ok", <<>>)
  /\ UNCHANGED <<engineVars, op, args, embedCalls, query_embedding, operands, scores,
                 ranked_docs, embedVars>>

\* lines 409-416: the chunks are those of SemanticSplitter.reconstruct, which
\* lives outside inference.py
SplitReturn ==
  /\ LoopDone /\ op = "split"
  /\ Leave("ok", <<>>)
  /\ UNCHANGED <<engineVars, op, args, embedCalls, query_embedding, operands, scores,
                 ranked_docs, embedVars>>

----------------------------------------------------------------------------
\* Specifications

EmbedSteps ==
  \/ Tokenize \/ Clamp \/ GatherRows \/ Pool \/ Normalize \/ Binarize
  \/ Store \/ StoreFails

\* embed alone
EmbedNext == EmbedCall \/ EmbedSteps \/ EmbedReturn \/ Consume

SpecEmbed == Init /\ [][EmbedNext]_vars

\* every public operation
Next ==
  \/ EmbedCall \/ EmbedSteps \/ EmbedReturn
  \/ RankCall \/ FilterCall \/ TopkCall \/ SimilarityCall
  \/ QueryEmbedded \/ DocsEmbedded \/ Scored
  \/ RankReturn \/ FilterReturn \/ TopkReturn \/ SimilarityReturn
  \/ VectorSimilarityCall \/ VectorSimilarityReturn
  \/ DeduplicateCall \/ ClusterCall \/ SplitCall
  \/ DeduplicateReturn \/ ClusterReturn \/ SplitReturn
  \/ Consume

Spec == Init /\ [][Next]_vars

----------------------------------------------------------------------------
\* Properties

\* the score of document t of the second embedding against the query
DocScore(t) ==
  LET u == query_embedding.data[1]
      v == pooled_embeddings.data[t]
  IN  IF binary THEN HammingScore(Len(u) * WordBits, u, v) ELSE CosineScore(u, v)

\* both calls of embed have returned and vector_similarity has been called
Embedded == operands # <<>>

\* C1: rank returns, for a non-empty list of docs (both embeddings having
\* been computed), exactly one (doc, score) pair per document, ordered by
\* score descending, documents of equal score in their input order.
RankStableDescending ==
  (pc = "done" /\ op = "rank" /\ args[2] # <<>> /\ Embedded) =>
    /\ result.status = "ok"
    /\ Len(result.value) = Len(args[2])
    /\ \E p \in Permutations(Len(args[2])) :
         /\ \A k \in 1..Len(args[2]) :
              result.value[k] = [doc |-> args[2][p[k]], score |-> DocScore(p[k])]
         /\ \A k \in 1..(Len(args[2]) - 1) :
              /\ ~ScoreGt(result.value[k + 1].score, result.value[k].score)
              /\ (/\ result.value[k].score = result.value[k + 1].score
                  /\ result.value[k].score # ScoreNaN) => p[k] < p[k + 1]

\* C2: vector_similarity returns a score matrix with one row per row of a and
\* one column per row of b (a 1D operand counting as one row), in dense and
\* in binary mode.
ScoreMatrixShape ==
  (pc = "done" /\ op = "vector_similarity") =>
    /\ result.status = "ok"
    /\ result.value.shape = <<Promote(operands[1]).shape[1], Promote(operands[2]).shape[1]>>

\* C3: filter returns, for a non-empty list of candidates (both embeddings
\* having been computed), exactly those whose score is strictly greater than
\* the threshold, in input order.
FilterStrictlyAbove ==
  (pc = "done" /\ op = "filter" /\ args[2] # <<>> /\ Embedded) =>
    /\ result.status = "ok"
    /\ result.value =
         Without(args[2],
                 {t \in 1..Len(args[2]) : ~AboveThreshold(binary, DocScore(t), args[3])}, 1)

\* C4: topk fails with an assertion error, before any call of embed, when
\* len(candidates) <= k; otherwise (both embeddings having been computed) it
\* returns the documents of the first k entries of rank(query, candidates).
TopkFirstOfRank ==
  (pc = "done" /\ op = "topk") =>
    IF Len(args[2]) <= args[3]
    THEN result.status = "AssertionError" /\ embedCalls = 0
    ELSE Embedded =>
           /\ result.status = "ok"
           /\ Len(ranked_docs) = Len(args[2])
           /\ result.value = FirstDocs(ranked_docs, args[3])
           /\ Len(result.value) = args[3]

\* the pooled (and, if asked, normalised) dense vector of one text
PooledVector(text) ==
  BatchCompute(embedding, FALSE, <<text>>, norm, TRUE).data[1]

\* C5: in binary mode embed allocates an output of shape [num_texts, dim/64],
\* every batch is written into it, and every text gets the dim/64 words that
\* pack the sign bits of its pooled vector.
BinaryOutputPacked ==
  (binary /\ op = "embed" /\ pool_embeddings /\ pc # "idle") =>
    /\ pooled_embeddings.shape = <<Len(texts), embedding_dim \div WordBits>>
    /\ pc = "done" =>
         /\ result.status = "ok"
         /\ \A t \in 1..Len(texts) : result.value.data[t] = PackRow(PooledVector(texts[t]))

\* the ids the tokenizer returned for the batch being processed
RawIds == tokenize(Chunk).ids

\* the rows of the batch once tokenized, clamped and gathered, and no further
Gathered == steps = <<"tokenize", "clamp", "gather">>
Pooled == steps = <<"tokenize", "clamp", "gather", "pool">>

\* a raw id read as a row of the table, ids past the end as the last row
RowFor(id) == IF id >= vocab_size THEN vocab_size - 1 ELSE id

\* C6: every id is within [0, vocab_size - 1] when the table is indexed, and
\* an id >= vocab_size contributes to the gathered and to the pooled batch
\* what the last row id vocab_size - 1 does.
ClampedLookup ==
  /\ pc = "gather" =>
       \A t \in DOMAIN input_ids : \A s \in DOMAIN input_ids[t] :
         input_ids[t][s] \in 0..(vocab_size - 1)
  /\ Gathered =>
       \A t \in DOMAIN RawIds : \A s \in DOMAIN RawIds[t] :
         batch_embeddings.data[t][s] = embedding[RowFor(RawIds[t][s]) + 1]
  /\ Pooled =>
       LET last(t) == LET id(s) == RowFor(RawIds[t][s]) IN Tabulate(Len(RawIds[t]), id)
           ids == Tabulate(Len(RawIds), last)
       IN  batch_embeddings = avg_pool(Gather(embedding, ids, SeqLen), attention_mask)

\* a batch holding an id >= vocab_size has been pooled
ClampedLookupWitness ==
  /\ Pooled
  /\ \E t \in DOMAIN RawIds : \E s \in DOMAIN RawIds[t] : RawIds[t][s] >= vocab_size

\* C7: in dense mode the vector embed returns for a text whose attention mask
\* is all zero is the zero vector, with and without normalisation.
ZeroMaskZeroVector ==
  (pc = "done" /\ op = "embed" /\ ~binary /\ pool_embeddings /\ result.status = "ok") =>
    \A t \in 1..Len(texts) :
      texts[t] = <<>> => \A j \in 1..embedding_dim : IsZero(result.value.data[t][j])

\* what embed stores for one text processed in a batch of its own
VectorOf(text) ==
  AssignedRows(BatchCompute(embedding, binary, <<text>>, norm, pool_embeddings),
               1, embedding_dim)[1]

\* C8: the batches of embed are written one after the other into consecutive,
\* pairwise disjoint slices of rows within 1..n, no row is written twice, and
\* when embed returns every row has been written once with the vector of its
\* text.
BatchSlicesPartition ==
  op = "embed" =>
    /\ \A a \in DOMAIN slices :
         slices[a] = {t \in 1..Len(texts) :
                        (a - 1) * batch_size < t /\ t <= a * batch_size}
    /\ \A a, b \in DOMAIN slices : a # b => slices[a] \cap slices[b] = {}
    /\ \A t \in DOMAIN writes : writes[t] <= 1
    /\ (pc = "done" /\ result.status = "ok") =>
         /\ Len(result.value.data) = Len(texts)
         /\ \A t \in 1..Len(texts) :
              /\ writes[t] = 1
              /\ \E a \in DOMAIN slices : t \in slices[a]
              /\ result.value.data[t] = VectorOf(texts[t])

\* embed has returned after a full batch and a final partial one
BatchSlicesWitness ==
  /\ pc = "done" /\ op = "embed" /\ result.status = "ok"
  /\ Len(texts) = 3 /\ batch_size = 2 /\ Len(slices) = 2

StepOrder ==
  <<"tokenize", "clamp", "gather", "pool", "normalize", "binarize", "store">>
StepIndex(name) == CHOOSE k \in DOMAIN StepOrder : StepOrder[k] = name

\* C9: the steps of a batch run in the order tokenize, clamp, gather, pool,
\* normalize, binarize, and normalisation is applied to pooled vectors only.
NormalizeOnlyPooled ==
  op = "embed" =>
    /\ \A a, b \in DOMAIN steps : a < b => StepIndex(steps[a]) < StepIndex(steps[b])
    /\ (\E a \in DOMAIN steps : steps[a] = "normalize") =>
         (\E a \in DOMAIN steps : steps[a] = "pool")
    /\ ~normOnUnpooled

\* C10: the table and the mode flag are those set at construction, whatever
\* operations have been called, failed or normalised in place.
TableAsConstructed ==
  /\ embedding = constructed.embedding
  /\ binary = constructed.binary

\* embed has normalised an unpooled batch in place and returned
TableAsConstructedWitness ==
  /\ pc = "done" /\ op = "embed" /\ result.status = "ok"
  /\ norm /\ ~pool_embeddings /\ normOnUnpooled

====
